---- MODULE Spec2Model ----
(***************************************************************************)
(* Model of the chatbot backend (backend/main.py and its services).        *)
(*                                                                         *)
(* One asyncio event loop serves every request of the process.  A handler  *)
(* runs on the loop from one await to the next; the synchronous call       *)
(* gemini_service.generate_response keeps the loop for as long as the      *)
(* provider takes, while an awaited call gives the loop back.              *)
(*                                                                         *)
(* Texts are sequences of one-character strings, so that slicing and       *)
(* concatenation are computed as Python computes them.                     *)
(***************************************************************************)
EXTENDS Integers, Sequences, FiniteSets, TLC

VARIABLES req, pc, loop, calls, sources, response, genResult, saveResult,
          reply, chat_history

vars == <<req, pc, loop, calls, sources, response, genResult, saveResult,
          reply, chat_history>>

(* ------------------------------ bounds -------------------------------- *)

\* Number of requests the clients send during a run.
NumRequests == 2

\* Longest selected_text tried is PreviewLen + MaxOver characters.
MaxOver == 1

\* Number of passages the similarity index holds.
IndexSize == 3

(* --------------------------- program constants ------------------------ *)

\* message.selected_text[:200]
PreviewLen == 200

\* Length of the static instruction used as context when nothing is selected.
StaticContextLen == 276

\* Result-count bound of a similarity query.
K == 3

\* raise HTTPException(status_code=500, ...) of the chat handler
ChatExceptStatus == 500

\* raise HTTPException(status_code=400, ...) of signup
SignupRejectStatus == 400

\* raise HTTPException(status_code=401, ...) of signin
SigninRejectStatus == 401

\* Status of a handler that returns normally.
OkStatus == 200

(* ------------------------------- texts -------------------------------- *)

Rep(c, n) == [i \in 1..n |-> c]

Min(a, b) == IF a <= b THEN a ELSE b

\* Python's s[:n]
Slice(s, n) == SubSeq(s, 1, Min(Len(s), n))

Ellipsis == <<".", ".", ".">>

\* Optional[str]: None, or a string
None == [present |-> FALSE, val |-> <<>>]

Some(s) == [present |-> TRUE, val |-> s]

\* Python truthiness of an Optional[str]: None and "" are false.
Truthy(opt) == opt.present /\ Len(opt.val) > 0

SelLens == {1, PreviewLen} \cup ((PreviewLen + 1)..(PreviewLen + MaxOver))

\* The ChatMessage bodies the clients send: a question with no selection or
\* an empty one, and a request to explain a selected passage.
ChatInputs ==
  {[message |-> "What is ROS 2?", selected_text |-> s] : s \in {None, Some(<<>>)}}
  \cup {[message |-> "Explain this", selected_text |-> Some(Rep("a", n))] : n \in SelLens}

\* Texts the generation provider may return.
Answers == {"A node is a process."}

StaticContext == Rep("s", StaticContextLen)

KnowledgeBaseText ==
  <<"A", "I", " ", "K", "n", "o", "w", "l", "e", "d", "g", "e", " ", "B", "a", "s", "e">>

Requests == 1..NumRequests

Idle == 0

NoReq == [endpoint |-> "none", message |-> "", selected_text |-> None]

NoReply == [status |-> 0, response |-> "", sources |-> <<>>]

\* What the similarity index would return for a query: its passages' scores,
\* in descending order.
index == [i \in 1..IndexSize |-> 100 - 5 * i]

(* ---------------------------- chat: pure parts ------------------------ *)

\* ChatContext with retrieval run before the selection is looked at.
ChatContext_AlwaysRetrieves(selected_text) ==
  IF Truthy(selected_text)
  THEN [context |-> selected_text.val,
        sources |-> <<[text |-> Slice(selected_text.val, PreviewLen) \o Ellipsis,
                       source |-> "Selected Text"]>>,
        calls |-> <<[fn |-> "embed", args |-> <<>>], [fn |-> "search", args |-> <<>>]>>]
  ELSE [context |-> StaticContext,
        sources |-> <<[text |-> KnowledgeBaseText, source |-> "AI"]>>,
        calls |-> <<>>]

\* ChatContext reporting the knowledge base beside the selection it used.
ChatContext_ExtraSource(selected_text) ==
  IF Truthy(selected_text)
  THEN [context |-> selected_text.val,
        sources |-> <<[text |-> Slice(selected_text.val, PreviewLen) \o Ellipsis,
                       source |-> "Selected Text"],
                      [text |-> KnowledgeBaseText, source |-> "AI"]>>,
        calls |-> <<>>]
  ELSE [context |-> StaticContext,
        sources |-> <<[text |-> KnowledgeBaseText, source |-> "AI"]>>,
        calls |-> <<>>]

\* ChatContext querying the index when nothing is selected.
ChatContext_QueriesIndex(selected_text) ==
  IF Truthy(selected_text)
  THEN [context |-> selected_text.val,
        sources |-> <<[text |-> Slice(selected_text.val, PreviewLen) \o Ellipsis,
                       source |-> "Selected Text"]>>,
        calls |-> <<>>]
  ELSE [context |-> StaticContext,
        sources |-> [i \in 1..Min(K, Len(index)) |->
                       [text |-> <<"p">>, source |-> "Unknown"]],
        calls |-> <<[fn |-> "embed", args |-> <<>>], [fn |-> "search", args |-> <<>>]>>]

\* The branch of chat that chooses context and sources.  calls lists the
\* capability calls the branch makes (none in either arm).
ChatContext(selected_text) ==
  IF Truthy(selected_text)
  THEN [context |-> selected_text.val,
        sources |-> <<[text |-> Slice(selected_text.val, PreviewLen) \o Ellipsis,
                       source |-> "Selected Text"]>>,
        calls |-> <<>>]
  ELSE [context |-> StaticContext,
        sources |-> <<[text |-> KnowledgeBaseText, source |-> "AI"]>>,
        calls |-> <<>>]

\* gemini_service.generate_response(message.message, context)
GenerateCall(message, context) ==
  [fn |-> "generate_response", args |-> <<message, context>>]

\* save_chat called with the question and the answer exchanged.
SaveChatCall_Swapped(message, bot_response, selected_text) ==
  [fn |-> "save_chat", args |-> <<bot_response, message, selected_text>>]

\* db_service.save_chat(user_message=, bot_response=, selected_text=)
SaveChatCall(message, bot_response, selected_text) ==
  [fn |-> "save_chat", args |-> <<message, bot_response, selected_text>>]

\* INSERT INTO chat_history (user_message, bot_response, selected_text)
ChatRow(args) ==
  [user_message |-> args[1], bot_response |-> args[2], selected_text |-> args[3]]

\* The outer except answering with an empty ChatResponse instead of raising.
ChatFailure_Swallowed == [status |-> OkStatus, response |-> "", sources |-> <<>>]

\* except Exception as e: raise HTTPException(status_code=500, ...)
ChatFailure == [status |-> ChatExceptStatus, response |-> "", sources |-> <<>>]

\* chat without the inner try: a raised write reaches the outer except.
ChatReturn_Propagates(resp, srcs, saveOutcome) ==
  IF saveOutcome = "raise" THEN ChatFailure
  ELSE [status |-> OkStatus, response |-> resp, sources |-> srcs]

\* What chat returns once the save_chat call is over, whatever its outcome.
ChatReturn(resp, srcs, saveOutcome) ==
  [status |-> OkStatus, response |-> resp, sources |-> srcs]

\* save_chat started as a background task: the response goes out at once.
ReplyDuringSave_Background(resp, srcs) ==
  [status |-> OkStatus, response |-> resp, sources |-> srcs]

\* What the caller has received while chat is suspended in `await save_chat`.
ReplyDuringSave(resp, srcs) == NoReply

(* ------------------------ signup / signin: pure parts ----------------- *)

\* HTTPException is a subclass of Exception: an HTTPException raised inside
\* the try block is caught by `except Exception` and re-raised as a 500.
ExceptException(raisedStatus) == 500

SigninStatus(result) ==
  IF result = "success" THEN OkStatus
  ELSE IF result = "rejected" THEN ExceptException(SigninRejectStatus)
  ELSE ExceptException(0)

SignupCreateStatus(result) ==
  IF result = "rejected" THEN ExceptException(SignupRejectStatus)
  ELSE ExceptException(0)

AuthReply(status) == [status |-> status, response |-> "", sources |-> <<>>]

(* ------------------------------- state -------------------------------- *)

Init ==
  /\ req = [r \in Requests |-> NoReq]
  /\ pc = [r \in Requests |-> "idle"]
  /\ loop = Idle
  /\ calls = [r \in Requests |-> <<>>]
  /\ sources = [r \in Requests |-> <<>>]
  /\ response = [r \in Requests |-> ""]
  /\ genResult = [r \in Requests |-> "none"]
  /\ saveResult = [r \in Requests |-> "none"]
  /\ reply = [r \in Requests |-> NoReply]
  /\ chat_history = <<>>

\* A client sends a request; the server accepts it and queues its handler.
Arrive(r, e, m, s) ==
  /\ pc[r] = "idle"
  /\ req' = [req EXCEPT ![r] = [endpoint |-> e, message |-> m, selected_text |-> s]]
  /\ pc' = [pc EXCEPT ![r] = "received"]
  /\ UNCHANGED <<loop, calls, sources, response, genResult, saveResult, reply,
                 chat_history>>

\* chat, from its first line into the synchronous generate_response call.
\* The call does not await: the handler keeps the event loop.
BeginChat(r) ==
  /\ pc[r] = "received"
  /\ req[r].endpoint = "chat"
  /\ loop = Idle
  /\ LET c == ChatContext(req[r].selected_text) IN
       /\ sources' = [sources EXCEPT ![r] = c.sources]
       /\ calls' = [calls EXCEPT ![r] =
                      (@ \o c.calls) \o <<GenerateCall(req[r].message, c.context)>>]
  /\ pc' = [pc EXCEPT ![r] = "generating"]
  /\ loop' = r
  /\ UNCHANGED <<req, response, genResult, saveResult, reply, chat_history>>

\* The provider answers with a text: chat goes on to `await save_chat(...)`,
\* which gives the loop back until the write is over.
GenerateOk(r, text) ==
  /\ pc[r] = "generating"
  /\ loop = r
  /\ genResult' = [genResult EXCEPT ![r] = "ok"]
  /\ response' = [response EXCEPT ![r] = text]
  /\ calls' = [calls EXCEPT ![r] =
                 Append(@, SaveChatCall(req[r].message, text, req[r].selected_text))]
  /\ saveResult' = [saveResult EXCEPT ![r] = "pending"]
  /\ pc' = [pc EXCEPT ![r] = "saving"]
  /\ reply' = [reply EXCEPT ![r] = ReplyDuringSave(text, sources[r])]
  /\ loop' = Idle
  /\ UNCHANGED <<req, sources, chat_history>>

\* The provider call raises: the outer except turns it into the 500 reply.
GenerateRaise(r) ==
  /\ pc[r] = "generating"
  /\ loop = r
  /\ genResult' = [genResult EXCEPT ![r] = "raise"]
  /\ reply' = [reply EXCEPT ![r] = ChatFailure]
  /\ pc' = [pc EXCEPT ![r] = "responded"]
  /\ loop' = Idle
  /\ UNCHANGED <<req, calls, sources, response, saveResult, chat_history>>

\* The database finishes the write of save_chat: the row is committed, or
\* the insert or commit raises and nothing is stored.
SaveChatDone(r, outcome) ==
  /\ pc[r] = "saving"
  /\ saveResult[r] = "pending"
  /\ saveResult' = [saveResult EXCEPT ![r] = outcome]
  /\ chat_history' = IF outcome = "ok"
                     THEN Append(chat_history, ChatRow(calls[r][Len(calls[r])].args))
                     ELSE chat_history
  /\ UNCHANGED <<req, pc, loop, calls, sources, response, genResult, reply>>

\* chat resumes after the await: a raised write is caught and printed, and
\* the handler returns the ChatResponse.
ResumeChat(r) ==
  /\ pc[r] = "saving"
  /\ saveResult[r] \in {"ok", "raise"}
  /\ loop = Idle
  /\ reply' = [reply EXCEPT ![r] = ChatReturn(response[r], sources[r], saveResult[r])]
  /\ pc' = [pc EXCEPT ![r] = "responded"]
  /\ UNCHANGED <<req, loop, calls, sources, response, genResult, saveResult,
                 chat_history>>

\* signin up to `await db_service.authenticate_user(email, password)`.
BeginSignin(r) ==
  /\ pc[r] = "received"
  /\ req[r].endpoint = "signin"
  /\ loop = Idle
  /\ calls' = [calls EXCEPT ![r] = Append(@, [fn |-> "authenticate_user", args |-> <<>>])]
  /\ pc' = [pc EXCEPT ![r] = "authenticating"]
  /\ UNCHANGED <<req, loop, sources, response, genResult, saveResult, reply,
                 chat_history>>

\* signin resumes with the collaborator's result (or its exception).
SigninReturn(r, result) ==
  /\ pc[r] = "authenticating"
  /\ req[r].endpoint = "signin"
  /\ loop = Idle
  /\ calls' = [calls EXCEPT ![r] = Append(@, [fn |-> "result", args |-> <<result>>])]
  /\ reply' = [reply EXCEPT ![r] = AuthReply(SigninStatus(result))]
  /\ pc' = [pc EXCEPT ![r] = "responded"]
  /\ UNCHANGED <<req, loop, sources, response, genResult, saveResult,
                 chat_history>>

\* signup up to `await db_service.create_user(...)`.
BeginSignup(r) ==
  /\ pc[r] = "received"
  /\ req[r].endpoint = "signup"
  /\ loop = Idle
  /\ calls' = [calls EXCEPT ![r] = Append(@, [fn |-> "create_user", args |-> <<>>])]
  /\ pc' = [pc EXCEPT ![r] = "creating"]
  /\ UNCHANGED <<req, loop, sources, response, genResult, saveResult, reply,
                 chat_history>>

\* signup resumes after create_user: on success it awaits authenticate_user,
\* otherwise it raises inside the try block.
SignupCreated(r, result) ==
  /\ pc[r] = "creating"
  /\ loop = Idle
  /\ calls' = [calls EXCEPT ![r] =
                 IF result = "success"
                 THEN @ \o <<[fn |-> "result", args |-> <<result>>],
                             [fn |-> "authenticate_user", args |-> <<>>]>>
                 ELSE Append(@, [fn |-> "result", args |-> <<result>>])]
  /\ IF result = "success"
     THEN /\ pc' = [pc EXCEPT ![r] = "authenticating"]
          /\ reply' = reply
     ELSE /\ pc' = [pc EXCEPT ![r] = "responded"]
          /\ reply' = [reply EXCEPT ![r] = AuthReply(SignupCreateStatus(result))]
  /\ UNCHANGED <<req, loop, sources, response, genResult, saveResult,
                 chat_history>>

\* signup resumes after authenticate_user and reads auth_result["user"]:
\* the call returns a result carrying a user, or the await or the lookup raises.
SignupAuthenticated(r, result) ==
  /\ pc[r] = "authenticating"
  /\ req[r].endpoint = "signup"
  /\ loop = Idle
  /\ calls' = [calls EXCEPT ![r] = Append(@, [fn |-> "result", args |-> <<result>>])]
  /\ reply' = [reply EXCEPT ![r] =
                 AuthReply(IF result = "success" THEN OkStatus ELSE ExceptException(0))]
  /\ pc' = [pc EXCEPT ![r] = "responded"]
  /\ UNCHANGED <<req, loop, sources, response, genResult, saveResult,
                 chat_history>>

Next ==
  \/ \E r \in Requests, c \in ChatInputs : Arrive(r, "chat", c.message, c.selected_text)
  \/ \E r \in Requests, e \in {"signup", "signin"} : Arrive(r, e, "", None)
  \/ \E r \in Requests : BeginChat(r)
  \/ \E r \in Requests, text \in Answers : GenerateOk(r, text)
  \/ \E r \in Requests : GenerateRaise(r)
  \/ \E r \in Requests, outcome \in {"ok", "raise"} : SaveChatDone(r, outcome)
  \/ \E r \in Requests : ResumeChat(r)
  \/ \E r \in Requests : BeginSignin(r)
  \/ \E r \in Requests, result \in {"success", "rejected", "raise"} : SigninReturn(r, result)
  \/ \E r \in Requests : BeginSignup(r)
  \/ \E r \in Requests, result \in {"success", "rejected", "raise"} : SignupCreated(r, result)
  \/ \E r \in Requests, result \in {"success", "raise"} : SignupAuthenticated(r, result)

Spec == Init /\ [][Next]_vars

\* The event loop runs every handler that is ready to run.  The provider,
\* the database and the credential collaborator owe no answer.
FairSpec ==
  /\ Spec
  /\ \A r \in Requests :
       /\ WF_vars(BeginChat(r))
       /\ WF_vars(ResumeChat(r))
       /\ WF_vars(BeginSignin(r))
       /\ WF_vars(BeginSignup(r))

(* ------------------------------ properties ---------------------------- *)

\* The names of the capability calls request r has made, in order.
CallNames(r) == [i \in 1..Len(calls[r]) |-> calls[r][i].fn]

\* The context string request r passed to generate_response.
ContextPassed(r) == calls[r][Len(calls[r]) - (IF genResult[r] = "ok" THEN 1 ELSE 0)].args[2]

IsPrefix(s, t) == Len(s) <= Len(t) /\ SubSeq(t, 1, Len(s)) = s

\* C1: a /chat request with a non-empty selected_text never calls the
\* embedding provider or the similarity index; its only capability calls are
\* one generate_response and, when that succeeded, one save_chat.
C1_RetrievalSkipped ==
  \A r \in Requests :
    (req[r].endpoint = "chat" /\ Truthy(req[r].selected_text)) =>
      /\ CallNames(r) \in {<<>>, <<"generate_response">>,
                           <<"generate_response", "save_chat">>}
      /\ (pc[r] \notin {"idle", "received"}) => Len(calls[r]) >= 1
      /\ (genResult[r] = "ok") <=> (CallNames(r) = <<"generate_response", "save_chat">>)

C1_Witness ==
  \E r \in Requests :
    /\ req[r].endpoint = "chat"
    /\ Truthy(req[r].selected_text)
    /\ reply[r].status = OkStatus

\* C2: every sources entry of a successful /chat response has a text of at
\* most PreviewLen characters, equal to the whole context fragment whenever
\* that fragment is shorter than PreviewLen.
C2_ExcerptBounded ==
  \A r \in Requests :
    (req[r].endpoint = "chat" /\ reply[r].status = OkStatus) =>
      \A i \in 1..Len(reply[r].sources) :
        /\ Len(reply[r].sources[i].text) <= PreviewLen
        /\ (Len(ContextPassed(r)) < PreviewLen) =>
             reply[r].sources[i].text = ContextPassed(r)

\* C3: when the generate_response call of a /chat request raises, the caller
\* gets status 500, no save_chat call is made for the request and the
\* chat_history log holds no row for it.
C3_NoRecordOnGenerationFailure ==
  /\ \A r \in Requests :
       (genResult[r] = "raise") =>
         /\ reply[r].status = 500
         /\ pc[r] = "responded"
         /\ CallNames(r) = <<"generate_response">>
         /\ saveResult[r] = "none"
  /\ Len(chat_history) = Cardinality({r \in Requests : saveResult[r] = "ok"})

C3_Witness ==
  \E r, q \in Requests :
    /\ genResult[r] = "raise"
    /\ reply[r].status = 500
    /\ saveResult[q] = "ok"
    /\ Len(chat_history) = 1

\* C4: when the save_chat write raises after a successful generation, the
\* request is answered with status 200 and with the response text and the
\* sources it would have had with a successful write.
C4_SaveFailureNotSurfaced ==
  \A r \in Requests :
    (saveResult[r] = "raise" /\ pc[r] = "responded") =>
      reply[r] = [status |-> 200,
                  response |-> calls[r][2].args[2],
                  sources |-> sources[r]]

C4_Witness ==
  \E r \in Requests :
    /\ saveResult[r] = "raise"
    /\ pc[r] = "responded"
    /\ reply[r].status = OkStatus

C6_SuspendedRequestDoesNotBlock ==
  \A a, b \in Requests :
    (a # b /\ pc[a] = "generating") =>
      /\ (pc[b] = "received" /\ req[b].endpoint = "chat") => ENABLED BeginChat(b)
      /\ (pc[b] = "received" /\ req[b].endpoint = "signin") => ENABLED BeginSignin(b)
      /\ (pc[b] = "saving" /\ saveResult[b] # "pending") => ENABLED ResumeChat(b)

\* C7: the sources list of a successful /chat response has one entry per
\* context fragment passed to generate_response, in the same order: the one
\* context string passed is described by the one entry.
C7_SourcesMatchContext ==
  \A r \in Requests :
    (req[r].endpoint = "chat" /\ reply[r].status = OkStatus) =>
      LET fragments == <<ContextPassed(r)>>
          srcs == reply[r].sources
      IN /\ Len(srcs) = Len(fragments)
         /\ \A i \in 1..Len(fragments) :
              IF Truthy(req[r].selected_text)
              THEN /\ fragments[i] = req[r].selected_text.val
                   /\ srcs[i].source = "Selected Text"
                   /\ IsPrefix(Slice(fragments[i], PreviewLen), srcs[i].text)
              ELSE /\ fragments[i] = StaticContext
                   /\ srcs[i].source = "AI"

C7_Witness ==
  \E r, q \in Requests :
    /\ req[r].endpoint = "chat" /\ reply[r].status = OkStatus
    /\ Truthy(req[r].selected_text)
    /\ req[q].endpoint = "chat" /\ reply[q].status = OkStatus
    /\ ~Truthy(req[q].selected_text)

\* C8: a /signin whose credentials are rejected is answered with status 401
\* and a /signup whose creation is rejected with status 400.
C8_RejectionStatus ==
  \A r \in Requests :
    (pc[r] = "responded" /\ Len(calls[r]) = 2 /\ calls[r][2].args = <<"rejected">>) =>
      /\ (req[r].endpoint = "signin") => reply[r].status = 401
      /\ (req[r].endpoint = "signup") => reply[r].status = 400

\* C9, as claimed: a successful /chat response to a request with empty or
\* absent selected_text lists min(K, n) sources, n the number of passages
\* the index holds.
C9_SourcesFromIndex ==
  \A r \in Requests :
    (req[r].endpoint = "chat" /\ ~Truthy(req[r].selected_text)
       /\ reply[r].status = OkStatus) =>
      Len(reply[r].sources) = Min(K, Len(index))

\* C9, amended: a /chat request with empty or absent selected_text never
\* queries the index; its successful response lists exactly one source,
\* the entry "AI Knowledge Base" labelled "AI", whatever the index holds.
C9_StaticSource ==
  \A r \in Requests :
    (req[r].endpoint = "chat" /\ ~Truthy(req[r].selected_text)) =>
      /\ \A i \in 1..Len(calls[r]) : calls[r][i].fn \in {"generate_response", "save_chat"}
      /\ (reply[r].status = OkStatus) =>
           reply[r].sources = <<[text |-> KnowledgeBaseText, source |-> "AI"]>>

C9_Witness ==
  \E r \in Requests :
    /\ req[r].endpoint = "chat"
    /\ ~Truthy(req[r].selected_text)
    /\ reply[r].status = OkStatus
    /\ Len(index) = IndexSize

\* C10: every /chat request makes exactly one generate_response call and,
\* when it succeeded, exactly one save_chat call, made after the generation
\* and before the response, with the request's message, the returned
\* response text and the request's selected_text; chat_history only grows
\* by appends and holds at most one row per request.
C10_OneCallOneRecord ==
  /\ [](\A r \in Requests :
          (req[r].endpoint = "chat") =>
            /\ (pc[r] \in {"idle", "received"}) => calls[r] = <<>>
            /\ (pc[r] \notin {"idle", "received"}) =>
                 /\ Len(calls[r]) >= 1
                 /\ calls[r][1].fn = "generate_response"
                 /\ calls[r][1].args[1] = req[r].message
            /\ Cardinality({i \in 1..Len(calls[r]) : calls[r][i].fn = "generate_response"}) <= 1
            /\ (genResult[r] # "ok") => Len(calls[r]) <= 1
            /\ (genResult[r] = "ok") =>
                 /\ Len(calls[r]) = 2
                 /\ calls[r][2].fn = "save_chat"
                 /\ calls[r][2].args = <<req[r].message, response[r], req[r].selected_text>>
            /\ (reply[r].status = OkStatus) =>
                 /\ genResult[r] = "ok"
                 /\ reply[r].response = response[r]
            /\ (saveResult[r] = "ok") =>
                 \E i \in 1..Len(chat_history) :
                   chat_history[i] = [user_message |-> req[r].message,
                                      bot_response |-> response[r],
                                      selected_text |-> req[r].selected_text])
  /\ [](Len(chat_history) = Cardinality({r \in Requests : saveResult[r] = "ok"}))
  /\ [][\/ chat_history' = chat_history
        \/ /\ Len(chat_history') = Len(chat_history) + 1
           /\ SubSeq(chat_history', 1, Len(chat_history)) = chat_history]_vars

C10_Witness ==
  \E r, q \in Requests :
    /\ r # q
    /\ saveResult[r] = "ok" /\ reply[r].status = OkStatus
    /\ saveResult[q] = "ok" /\ reply[q].status = OkStatus
    /\ Len(chat_history) = 2

====
